---- MODULE Spec2Model ----
(***************************************************************************)
(* Model of generate_qiime_manifest.py: the direction inferencer           *)
(* (infer_direction), the manifest accumulator (ManifestFile) and the      *)
(* command-line run (main).                                                *)
(*                                                                         *)
(* Text is modelled as a sequence of one-character strings (FASTQ files)   *)
(* or of tokens (manifest files); "\n" is the line terminator in both.     *)
(***************************************************************************)
EXTENDS Integers, Sequences, FiniteSets, TLC

VARIABLES
    disk,      \* the filesystem: absolute path -> content, or Absent
    doc,       \* the ManifestFile instance, or NoDoc before one is built
    hist,      \* history: what the last ManifestFile operation saw before it ran
    args,      \* the parsed command line of a run of main
    pc,        \* main's position
    outcome,   \* how main ended: a return code or an uncaught exception
    stdout,    \* the lines main printed with print(line, end="")
    ifile,     \* infer_direction's input file content
    imax,      \* infer_direction's parameter n
    iresult    \* infer_direction's result, or Pending before the call

vars == <<disk, doc, hist, args, pc, outcome, stdout, ifile, imax, iresult>>

----------------------------------------------------------------------------
(* Bounds of the model *)

MaxHeaderLen == 5   \* characters after the "@" of a generated header line
MaxLead == 1        \* lines before the first header line
MaxN == 2           \* largest value of infer_direction's parameter n tried
MaxFiles == 2       \* input files on a command line
MaxAdds == 2        \* add_file calls in a run of the document operations
MaxBuilds == 2      \* documents built in a run of the document operations

----------------------------------------------------------------------------
(* Sequences and text *)

Min(S) == CHOOSE x \in S : \A y \in S : x <= y
Max(S) == CHOOSE x \in S : \A y \in S : x >= y

Last(s) == s[Len(s)]

RECURSIVE Flatten(_)
Flatten(ss) == IF ss = <<>> THEN <<>> ELSE Head(ss) \o Flatten(Tail(ss))

Positions(s, c) == {i \in 1..Len(s) : s[i] = c}

\* str.split(sep) for a one-character sep: the pieces between the separators,
\* empty pieces kept.
RECURSIVE Split(_, _)
Split(s, sep) ==
    IF Positions(s, sep) = {} THEN <<s>>
    ELSE LET i == Min(Positions(s, sep))
         IN <<SubSeq(s, 1, i - 1)>> \o Split(SubSeq(s, i + 1, Len(s)), sep)

\* Iterating a text file, and file.readlines(): the lines with their
\* terminators kept; the last line has none when the file does not end with one.
RECURSIVE FileLines(_)
FileLines(content) ==
    IF content = <<>> THEN <<>>
    ELSE IF Positions(content, "\n") = {} THEN <<content>>
    ELSE LET i == Min(Positions(content, "\n"))
         IN <<SubSeq(content, 1, i)>> \o FileLines(SubSeq(content, i + 1, Len(content)))

\* itertools.islice(file, n)
Islice(lines, n) == SubSeq(lines, 1, IF n < Len(lines) THEN n ELSE Len(lines))

StartsWithAt(line) == Len(line) > 0 /\ line[1] = "@"

----------------------------------------------------------------------------
(* Direction and infer_direction *)

Forward == "forward"
Reverse == "reverse"
Unknown == "Unknown"
Direction == {Forward, Reverse, Unknown}

Returned(v) == [exc |-> "none", value |-> v]
Raised(e) == [exc |-> e, value |-> "none"]

\* new_format = lambda x: x.split(" ")[1].split(":")[0]
new_format(x) ==
    LET f == Split(x, " ")
    IN IF Len(f) < 2 THEN Raised("IndexError")
       ELSE Returned(Split(f[2], ":")[1])

\* old_format = lambda x: x.split(":")[4][-1]
old_format(x) ==
    LET f == Split(x, ":")
    IN IF Len(f) < 5 THEN Raised("IndexError")
       ELSE IF f[5] = <<>> THEN Raised("IndexError")
       ELSE Returned(<<Last(f[5])>>)

\* The try statement of infer_direction on a header line. Python picks the
\* first except clause that matches what the try body raised; an exception
\* raised inside a handler is not offered to the sibling clauses.
member_number_of(line) ==
    LET r == new_format(line)
    IN IF r.exc = "none" THEN r
       ELSE IF r.exc = "IndexError" THEN old_format(line)
       ELSE IF r.exc \in {"IndexError", "TypeError"} THEN Raised("InferenceError")
       ELSE r

\* The for loop with its break: the first line that starts with "@", 0 if none.
\* (LastHeader is the loop without the break.)
LastHeader(lines) ==
    LET hs == {i \in 1..Len(lines) : StartsWithAt(lines[i])}
    IN IF hs = {} THEN 0 ELSE Max(hs)
FirstHeader(lines) ==
    LET hs == {i \in 1..Len(lines) : StartsWithAt(lines[i])}
    IN IF hs = {} THEN 0 ELSE Min(hs)

\* member_number: int = 0, the value left when no header line was seen. It is
\* an integer, so it equals no string; here a one-token text no file contains.
NoMemberNumber == <<"int(0)">>

\* The final if/elif/else.
direction_of(member_number) ==
    IF member_number = <<"1">> THEN Forward
    ELSE IF member_number = <<"2">> THEN Reverse
    ELSE Unknown

infer_direction(content, n) ==
    LET lines == Islice(FileLines(content), n)
        h == FirstHeader(lines)
    IN IF h = 0 THEN Returned(direction_of(NoMemberNumber))
       ELSE LET r == member_number_of(lines[h])
            IN IF r.exc = "none" THEN Returned(direction_of(r.value)) ELSE r

----------------------------------------------------------------------------
(* Inputs of infer_direction *)

HeaderChars == {" ", ":", "1", "2"}

RECURSIVE Words(_)
Words(k) ==
    IF k = 0 THEN {<<>>}
    ELSE Words(k - 1) \cup {Append(w, c) : w \in {v \in Words(k - 1) : Len(v) = k - 1}, c \in HeaderChars}

\* Lines that start with "@", without a terminator.
HeaderLines == {<<"@">> \o w : w \in Words(MaxHeaderLen)}

\* A line that is no header although it holds a member number.
LeadLine == <<"x", " ", "2", ":">>

\* A later header line, whose member number differs from most first ones.
LaterHeader == <<"@", "r", " ", "2", ":", "N">>

RECURSIVE Repeat(_, _)
Repeat(x, k) == IF k = 0 THEN <<>> ELSE <<x>> \o Repeat(x, k - 1)

\* A file: its lines, each but the last ended by "\n", the last one ended by
\* it when finalNewline.
FileOf(ls, finalNewline) ==
    Flatten([i \in 1..Len(ls) |->
        IF i < Len(ls) \/ finalNewline THEN Append(ls[i], "\n") ELSE ls[i]])

FastqFiles ==
    {FileOf(Repeat(LeadLine, k) \o h \o t, nl) :
        k \in 0..MaxLead,
        h \in {<<>>} \cup {<<l>> : l \in HeaderLines},
        t \in {<<>>, <<LaterHeader>>},
        nl \in BOOLEAN}

----------------------------------------------------------------------------
(* Paths and the filesystem *)

\* A pathlib.Path: absolute or relative, its directories and its final
\* component, the latter as text ("." is one token of it).
MkPath(a, d, n) == [abs |-> a, dir |-> d, name |-> n]

\* The working directory of the process.
Cwd == <<"work">>

\* Path.absolute(), which is also how the operating system resolves a path.
Absolute(p) == IF p.abs THEN p ELSE MkPath(TRUE, Cwd \o p.dir, p.name)

\* The path a bare file name str denotes.
PathOfName(n) == MkPath(FALSE, <<>>, n)

\* Path.suffix and Path.stem: split at the last ".", unless it is the first or
\* the last character of the name.
LastDot(n) == IF Positions(n, ".") = {} THEN 0 ELSE Max(Positions(n, "."))
Suffix(p) ==
    LET i == LastDot(p.name)
    IN IF 1 < i /\ i < Len(p.name) THEN SubSeq(p.name, i, Len(p.name)) ELSE <<>>
Stem(p) ==
    LET i == LastDot(p.name)
    IN IF 1 < i /\ i < Len(p.name) THEN SubSeq(p.name, 1, i - 1) ELSE p.name

\* str(path)
RECURSIVE JoinDirs(_)
JoinDirs(d) == IF d = <<>> THEN <<>> ELSE <<Head(d), "/">> \o JoinDirs(Tail(d))
PathText(p) == (IF p.abs THEN <<"/">> ELSE <<>>) \o JoinDirs(p.dir) \o p.name

Absent == [exists |-> FALSE, content |-> <<>>]
FileWith(c) == [exists |-> TRUE, content |-> c]

\* Path.exists()
Exists(dk, p) == dk[Absolute(p)].exists

----------------------------------------------------------------------------
(* ManifestFile *)

HEADER == <<"sample-id", ",", "absolute-filepath", ",", "direction", "\n">>

NoPath == MkPath(FALSE, <<>>, <<>>)
NoDoc == [built |-> FALSE, path |-> NoPath, name |-> <<>>, exists |-> FALSE,
          lines |-> <<>>, unwritten |-> <<>>]

\* ManifestFile.__init__
Construct(dk, filepath) ==
    [built |-> TRUE, path |-> filepath, name |-> filepath.name,
     exists |-> Exists(dk, filepath), lines |-> <<>>, unwritten |-> <<HEADER>>]

\* ManifestFile.from_file; open(filepath, "r") raises when the file is absent.
from_file(dk, filepath) ==
    IF ~Exists(dk, filepath) THEN [exc |-> "FileNotFoundError", doc |-> NoDoc]
    ELSE [exc |-> "none",
          doc |-> [Construct(dk, filepath) EXCEPT
                      !.lines = <<HEADER>> \o FileLines(dk[Absolute(filepath)].content),
                      !.unwritten = <<>>,
                      !.exists = TRUE]]

\* The line add_file formats: f"{name},{file_path},{direction.value}\n"
Row(name, file_path, direction) ==
    name \o <<",">> \o file_path \o <<",">> \o <<direction>> \o <<"\n">>

\* ManifestFile.add_file
add_file_dropped(d, name, file_path, direction) == d  \* a variant that keeps no row
add_file(d, name, file_path, direction) ==
    [d EXCEPT !.unwritten = Append(@, Row(name, file_path, direction))]

\* The file create and update open: open(self.name, ...), a bare file name,
\* resolved against the working directory.
OpenedPath(d) == Absolute(PathOfName(d.name))

\* The filesystem after create: mode "w" truncates, then every unwritten line
\* is written.
DiskAfterCreate(dk, d) ==
    [dk EXCEPT ![OpenedPath(d)] = FileWith(Flatten(d.unwritten))]

\* The filesystem after update: mode "a" creates the file when absent, then
\* every unwritten line is written at its end.
DiskAfterUpdate(dk, d) ==
    [dk EXCEPT ![OpenedPath(d)] = FileWith(@.content \o Flatten(d.unwritten))]

\* The end of create and of update: the unwritten lines move to _lines.
Flushed(d) == [d EXCEPT !.lines = @ \o d.unwritten, !.unwritten = <<>>]

----------------------------------------------------------------------------
(* Files of the model *)

ManifestName == <<"m", ".", "csv">>
ManifestPaths == {MkPath(FALSE, <<>>, ManifestName), MkPath(FALSE, <<"out">>, ManifestName)}
StdoutPath == MkPath(FALSE, <<>>, <<"stdout">>)

FwdFastq == MkPath(FALSE, <<>>, <<"sA", ".", "fastq">>)
RevFastq == MkPath(FALSE, <<"reads">>, <<"sB", ".", "R2", ".", "fastq">>)
OldFastq == MkPath(TRUE, <<"data">>, <<"sC", ".", "fastq">>)
BadFastq == MkPath(FALSE, <<>>, <<"bad", ".", "fastq">>)
TextFile == MkPath(FALSE, <<>>, <<"notes", ".", "txt">>)
GoneFastq == MkPath(FALSE, <<>>, <<"gone", ".", "fastq">>)
InputPaths == {FwdFastq, RevFastq, OldFastq, BadFastq, TextFile, GoneFastq}

DiskPaths == {Absolute(p) : p \in ManifestPaths \cup InputPaths \cup {StdoutPath}}

\* What the input files hold.
InputContent(p) ==
    IF p = FwdFastq THEN FileWith(<<"@", "r", " ", "1", ":", "N", "\n", "A", "C", "\n">>)
    ELSE IF p = RevFastq THEN FileWith(<<"@", "r", " ", "2", ":", "N", "\n", "A", "C", "\n">>)
    ELSE IF p = OldFastq THEN FileWith(<<"@", "r", ":", "6", ":", "7", ":", "9", ":", "3", "#", "0", "/", "1", "\n">>)
    ELSE IF p = BadFastq THEN FileWith(<<"@", "r", "\n", "A", "C", "\n">>)
    ELSE IF p = TextFile THEN FileWith(<<"n", "\n">>)
    ELSE Absent

\* Manifests this program wrote earlier, or no file.
OldRow == Row(<<"s0">>, <<"/", "data", "/", "s0", ".", "fastq">>, Forward)
ManifestContents == {Absent, FileWith(HEADER), FileWith(HEADER \o OldRow)}

Disks ==
    {[q \in DiskPaths |->
        IF \E p \in ManifestPaths : q = Absolute(p) THEN m[q]
        ELSE IF \E p \in InputPaths : q = Absolute(p)
             THEN InputContent(CHOOSE p \in InputPaths : q = Absolute(p))
        ELSE Absent] :
     m \in [{Absolute(p) : p \in ManifestPaths} -> ManifestContents]}

Pending == [exc |-> "pending", value |-> "none"]
Idle == "idle"

----------------------------------------------------------------------------
(* Specification of infer_direction alone *)

InitInfer ==
    /\ ifile \in FastqFiles
    /\ imax \in 0..MaxN
    /\ iresult = Pending
    /\ disk = <<>>
    /\ doc = NoDoc
    /\ hist = Idle
    /\ args = Idle
    /\ pc = Idle
    /\ outcome = Idle
    /\ stdout = <<>>

InferCall ==
    /\ iresult = Pending
    /\ iresult' = infer_direction(ifile, imax)
    /\ UNCHANGED <<disk, doc, hist, args, pc, outcome, stdout, ifile, imax>>

NextInfer == InferCall

SpecInfer == InitInfer /\ [][NextInfer]_vars

----------------------------------------------------------------------------
(* Specification of the ManifestFile operations on a filesystem *)

\* What the history keeps: the last operation, the filesystem and the buffers
\* before it, whether the document was loaded, the file content it was loaded
\* from, the rows added since it was built, the flushes since it was built (0, 1, or 2 for more),
\* the add_file calls made in all and the documents built in all.
Hist(op, dk, d, loaded, base, added, flushes, total, builds) ==
    [op |-> op, disk |-> dk, lines |-> d.lines, unwritten |-> d.unwritten,
     loaded |-> loaded, base |-> base, added |-> added, flushes |-> flushes,
     total |-> total, builds |-> builds]

SampleNames == {<<"s1">>, <<"s2">>}
SamplePath == <<"/", "work", "/", "s", ".", "fastq">>

InitDoc ==
    /\ disk \in Disks
    /\ doc = NoDoc
    /\ hist = Hist("none", disk, NoDoc, FALSE, <<>>, <<>>, 0, 0, 0)
    /\ args = Idle
    /\ pc = Idle
    /\ outcome = Idle
    /\ stdout = <<>>
    /\ ifile = <<>>
    /\ imax = 0
    /\ iresult = Pending

DocConstruct(p) ==
    /\ hist.builds < MaxBuilds
    /\ doc' = Construct(disk, p)
    /\ hist' = Hist("construct", disk, doc, FALSE, <<>>, <<>>, 0, hist.total, hist.builds + 1)
    /\ UNCHANGED <<disk, args, pc, outcome, stdout, ifile, imax, iresult>>

DocFromFile(p) ==
    /\ hist.builds < MaxBuilds
    /\ from_file(disk, p).exc = "none"
    /\ doc' = from_file(disk, p).doc
    /\ hist' = Hist("from_file", disk, doc, TRUE, disk[Absolute(p)].content, <<>>, 0, hist.total, hist.builds + 1)
    /\ UNCHANGED <<disk, args, pc, outcome, stdout, ifile, imax, iresult>>

DocAddFile(name, direction) ==
    /\ doc.built
    /\ hist.total < MaxAdds
    /\ doc' = add_file(doc, name, SamplePath, direction)
    /\ hist' = Hist("add_file", disk, doc, hist.loaded, hist.base,
                    Append(hist.added, Row(name, SamplePath, direction)),
                    hist.flushes, hist.total + 1, hist.builds)
    /\ UNCHANGED <<disk, args, pc, outcome, stdout, ifile, imax, iresult>>

DocCreate ==
    /\ doc.built
    /\ disk' = DiskAfterCreate(disk, doc)
    /\ doc' = Flushed(doc)
    /\ hist' = Hist("create", disk, doc, hist.loaded, hist.base, hist.added,
                    Min({hist.flushes + 1, 2}), hist.total, hist.builds)
    /\ UNCHANGED <<args, pc, outcome, stdout, ifile, imax, iresult>>

DocUpdate ==
    /\ doc.built
    /\ disk' = DiskAfterUpdate(disk, doc)
    /\ doc' = Flushed(doc)
    /\ hist' = Hist("update", disk, doc, hist.loaded, hist.base, hist.added,
                    Min({hist.flushes + 1, 2}), hist.total, hist.builds)
    /\ UNCHANGED <<args, pc, outcome, stdout, ifile, imax, iresult>>

NextDoc ==
    \/ \E p \in ManifestPaths : DocConstruct(p)
    \/ \E p \in ManifestPaths : DocFromFile(p)
    \/ \E name \in SampleNames, direction \in Direction : DocAddFile(name, direction)
    \/ DocCreate
    \/ DocUpdate

SpecDoc == InitDoc /\ [][NextDoc]_vars

----------------------------------------------------------------------------
(* extend_manifest and main *)

\* infer_direction's default n.
DefaultN == 100

\* infer_direction(file): open(filepath, "r") raises when the file is absent.
infer_file(dk, file) ==
    IF ~Exists(dk, file) THEN Raised("FileNotFoundError")
    ELSE infer_direction(dk[Absolute(file)].content, DefaultN)

\* ManifestFile.extend_manifest: the document as the loop left it, and the
\* exception that ended the loop, if any. The arguments of add_file are
\* evaluated before the call, so a file whose inference raises adds no row.
RECURSIVE extend_manifest(_, _, _, _)
extend_manifest(d, dk, files, infer) ==
    IF files = <<>> THEN [exc |-> "none", doc |-> d]
    ELSE LET file == Head(files)
             r == IF infer THEN infer_file(dk, file) ELSE Returned(Unknown)
         IN IF r.exc # "none" THEN [exc |-> r.exc, doc |-> d]
            ELSE extend_manifest(add_file(d, Stem(file), PathText(Absolute(file)), r.value),
                                 dk, Tail(files), infer)

Running == [kind |-> "running", code |-> 0, exc |-> "none"]
Return(c) == [kind |-> "return", code |-> c, exc |-> "none"]
Uncaught(e) == [kind |-> "raise", code |-> 0, exc |-> e]

\* The one-line messages main prints.
ErrorLine(text) == <<"generate_qiime_manifest.py", ": error: ", text, "\n">>

RECURSIVE SeqsUpTo(_, _)
SeqsUpTo(S, k) ==
    IF k = 0 THEN {<<>>}
    ELSE SeqsUpTo(S, k - 1) \cup
         {Append(w, x) : w \in {v \in SeqsUpTo(S, k - 1) : Len(v) = k - 1}, x \in S}

\* What argparse can return: one file at least, -o and -a mutually exclusive.
ArgsSet ==
    {x \in [files : SeqsUpTo(InputPaths, MaxFiles),
            append : ManifestPaths \cup {NoPath},
            output : ManifestPaths \cup {NoPath},
            infer : BOOLEAN,
            no_overwrite : BOOLEAN] :
        x.files # <<>> /\ (x.append = NoPath \/ x.output = NoPath)}

InitMain ==
    /\ disk \in Disks
    /\ args \in ArgsSet
    /\ doc = NoDoc
    /\ hist = Hist("start", disk, NoDoc, FALSE, <<>>, <<>>, 0, 0, 0)
    /\ pc = "validate"
    /\ outcome = Running
    /\ stdout = <<>>
    /\ ifile = <<>>
    /\ imax = 0
    /\ iresult = Pending

\* main, lines 214-225: the suffix check, then the existence check.
MainValidate ==
    /\ pc = "validate"
    /\ IF \E i \in 1..Len(args.files) : Suffix(args.files[i]) # <<".", "fastq">>
       THEN /\ stdout' = stdout \o ErrorLine("All files must be valid fastq files")
            /\ outcome' = Return(1)
            /\ pc' = "done"
       ELSE IF \E i \in 1..Len(args.files) : ~Exists(disk, args.files[i])
       THEN /\ stdout' = stdout \o ErrorLine("No such file or directory")
            /\ outcome' = Return(2)
            /\ pc' = "done"
       ELSE /\ pc' = "instantiate"
            /\ UNCHANGED <<stdout, outcome>>
    /\ UNCHANGED <<disk, doc, hist, args, ifile, imax, iresult>>

\* main, lines 227-242: the ManifestFile the options ask for.
MainInstantiate ==
    /\ pc = "instantiate"
    /\ IF args.append # NoPath
       THEN IF ~Exists(disk, args.append)
            THEN /\ stdout' = stdout \o ErrorLine("File not found!")
                 /\ outcome' = Return(1)
                 /\ pc' = "done"
                 /\ doc' = doc
            ELSE /\ doc' = from_file(disk, args.append).doc
                 /\ pc' = "extend"
                 /\ UNCHANGED <<stdout, outcome>>
       ELSE IF args.output # NoPath
       THEN IF args.no_overwrite /\ Exists(disk, args.output)
            THEN /\ stdout' = stdout \o ErrorLine("File exists!")
                 /\ outcome' = Return(1)
                 /\ pc' = "done"
                 /\ doc' = doc
            ELSE /\ doc' = Construct(disk, args.output)
                 /\ pc' = "extend"
                 /\ UNCHANGED <<stdout, outcome>>
       ELSE /\ doc' = Construct(disk, StdoutPath)
            /\ pc' = "extend"
            /\ UNCHANGED <<stdout, outcome>>
    /\ UNCHANGED <<disk, hist, args, ifile, imax, iresult>>

\* main, line 245: manifest.extend_manifest(files, args.infer). main has no
\* try statement, so what extend_manifest raises leaves main uncaught.
\* (MainExtendFlushing is a variant that writes what was gathered at once.)
MainExtendFlushing ==
    /\ pc = "extend"
    /\ LET r == extend_manifest(doc, disk, args.files, args.infer)
       IN /\ doc' = r.doc
          /\ disk' = IF args.append # NoPath THEN DiskAfterUpdate(disk, r.doc)
                     ELSE IF args.output # NoPath THEN DiskAfterCreate(disk, r.doc)
                     ELSE disk
          /\ IF r.exc = "none"
             THEN pc' = "persist" /\ outcome' = outcome
             ELSE pc' = "done" /\ outcome' = Uncaught(r.exc)
    /\ UNCHANGED <<hist, args, stdout, ifile, imax, iresult>>
MainExtend ==
    /\ pc = "extend"
    /\ LET r == extend_manifest(doc, disk, args.files, args.infer)
       IN /\ doc' = r.doc
          /\ IF r.exc = "none"
             THEN pc' = "persist" /\ outcome' = outcome
             ELSE pc' = "done" /\ outcome' = Uncaught(r.exc)
    /\ UNCHANGED <<disk, hist, args, stdout, ifile, imax, iresult>>

\* main, lines 249-256: update, create, or print the unwritten lines.
MainPersist ==
    /\ pc = "persist"
    /\ IF args.append # NoPath
       THEN /\ disk' = DiskAfterUpdate(disk, doc)
            /\ doc' = Flushed(doc)
            /\ stdout' = stdout
       ELSE IF args.output # NoPath
       THEN /\ disk' = DiskAfterCreate(disk, doc)
            /\ doc' = Flushed(doc)
            /\ stdout' = stdout
       ELSE /\ stdout' = stdout \o Flatten(doc.unwritten)
            /\ UNCHANGED <<disk, doc>>
    /\ outcome' = Return(0)
    /\ pc' = "done"
    /\ UNCHANGED <<hist, args, ifile, imax, iresult>>

NextMain ==
    \/ MainValidate
    \/ MainInstantiate
    \/ MainExtend
    \/ MainPersist

SpecMain == InitMain /\ [][NextMain]_vars

----------------------------------------------------------------------------
(* Claims about the ManifestFile operations, under SpecDoc *)

IsFlush == hist.op \in {"create", "update"}

\* C1: create and update write the document's own path (the path Construct
\* tested and from_file read), whatever directory it names, and touch no
\* other file.
C1_FlushWritesOwnPath ==
    IsFlush =>
        /\ disk[Absolute(doc.path)].exists
        /\ \A q \in DiskPaths : q # Absolute(doc.path) => disk[q] = hist.disk[q]

\* C2: after from_file(path), some add_file calls and one update, the file at
\* path holds what it held when loaded, followed by exactly the added rows in
\* the order they were added.
C2_AppendKeepsContent ==
    (hist.op = "update" /\ hist.loaded /\ hist.flushes = 1) =>
        disk[Absolute(doc.path)].content = hist.base \o Flatten(hist.added)

\* C3: a flush (create or update) of a document with nothing pending is a
\* no-op: the files on disk and the persisted lines are as before the call.
C3_EmptyFlushIsNoOp ==
    (IsFlush /\ hist.unwritten = <<>>) =>
        /\ disk = hist.disk
        /\ doc.lines = hist.lines

\* C8: in every state of a document, built new or loaded from a manifest this
\* program wrote, the header line occurs exactly once in persisted followed by
\* pending, as the first of those lines.
AllLines == doc.lines \o doc.unwritten
C8_HeaderOnce ==
    doc.built =>
        /\ Cardinality({i \in 1..Len(AllLines) : AllLines[i] = HEADER}) = 1
        /\ AllLines[1] = HEADER

----------------------------------------------------------------------------
(* Claims about infer_direction, under SpecInfer *)

\* The lines of the input the call may look at, and the first header line
\* among them, stated without the scan.
SeenLines == Islice(FileLines(ifile), imax)
HasHeader == \E i \in 1..Len(SeenLines) : SeenLines[i][1] = "@"
TheHeader ==
    SeenLines[CHOOSE i \in 1..Len(SeenLines) :
        /\ SeenLines[i][1] = "@"
        /\ \A j \in 1..(i - 1) : SeenLines[j][1] # "@"]
Called == iresult # Pending

\* The header without its line terminator.
HeaderText ==
    IF Last(TheHeader) = "\n" THEN SubSeq(TheHeader, 1, Len(TheHeader) - 1) ELSE TheHeader

\* The post-Casava token: what follows the first space, up to the next space
\* or ":" or the end of the line.
PostCasavaToken ==
    LET h == TheHeader
        i == Min(Positions(h, " "))
        stops == {j \in (i + 1)..Len(h) : h[j] \in {" ", ":"}}
    IN SubSeq(h, i + 1, IF stops = {} THEN Len(h) ELSE Min(stops) - 1)

\* The fields of the header text between its ":" characters, by position.
ColonCount == Cardinality(Positions(HeaderText, ":"))
NthColon(n) ==
    CHOOSE i \in Positions(HeaderText, ":") :
        Cardinality({j \in Positions(HeaderText, ":") : j <= i}) = n
FifthFieldEnd == IF ColonCount >= 5 THEN NthColon(5) - 1 ELSE Len(HeaderText)
FifthFieldEmpty == FifthFieldEnd = NthColon(4)

\* C5: the result depends only on the first "@" line among the first n lines:
\* with a post-Casava header, token "1" gives Forward, "2" Reverse, any other
\* token Unknown, without an error; later lines are not consulted; with no
\* "@" line among the first n lines the result is Unknown, not an error.
C5_FirstHeaderDecides ==
    Called =>
        /\ ~HasHeader => iresult = Returned(Unknown)
        /\ HasHeader => iresult = infer_direction(TheHeader, 1)
        /\ (HasHeader /\ Positions(TheHeader, " ") # {}) =>
               iresult = Returned(IF PostCasavaToken = <<"1">> THEN Forward
                                  ELSE IF PostCasavaToken = <<"2">> THEN Reverse
                                  ELSE Unknown)

\* A post-Casava first header with token "1", followed by a later header line
\* with token "2", gave Forward.
C5_Witness ==
    /\ Called
    /\ HasHeader
    /\ Positions(TheHeader, " ") # {}
    /\ PostCasavaToken = <<"1">>
    /\ Cardinality({i \in 1..Len(SeenLines) : SeenLines[i][1] = "@"}) = 2
    /\ iresult = Returned(Forward)

\* C6: when the first "@" line has no second space-delimited field and fewer
\* than five ":"-separated fields, infer_direction fails with InferenceError
\* and with no other kind of error.
C6_RaisesInferenceError ==
    (Called /\ HasHeader /\ Positions(TheHeader, " ") = {} /\ ColonCount < 4) =>
        iresult = Raised("InferenceError")

\* C9: when the first "@" line, with or without a line terminator, has no
\* space and at least five ":"-separated fields, the last character of the
\* 5th field of the header is the member number: "1" gives Forward and "2"
\* gives Reverse.
C9_PreCasavaFallback ==
    (Called /\ HasHeader /\ Positions(TheHeader, " ") = {} /\ ColonCount >= 4
            /\ ~FifthFieldEmpty) =>
        /\ HeaderText[FifthFieldEnd] = "1" => iresult = Returned(Forward)
        /\ HeaderText[FifthFieldEnd] = "2" => iresult = Returned(Reverse)

----------------------------------------------------------------------------
(* Claims about a run of main, under SpecMain *)

NFiles == Len(args.files)
Succeeded == pc = "done" /\ outcome = Return(0)

\* The row a run owes an input file: the file name without its ".fastq", the
\* path from the root, the direction.
OwedRow(p, direction) ==
    SubSeq(p.name, 1, Len(p.name) - 2) \o <<",">>
    \o (IF p.abs THEN <<"/">> ELSE <<"/", "work", "/">>) \o JoinDirs(p.dir) \o p.name
    \o <<",", direction, "\n">>
OwedRows(ds) == Flatten([i \in 1..NFiles |-> OwedRow(args.files[i], ds[i])])
DirectionChoices ==
    {ds \in [1..NFiles -> Direction] : ~args.infer => \A i \in 1..NFiles : ds[i] = Unknown}

\* C4: a successful run adds exactly one row per input file, in input order,
\* each stem, absolute path, direction: with -o and on stdout the result is the
\* header followed by the rows, with -a the rows are appended; without -i every
\* direction is Unknown.
C4_OneRowPerFile ==
    Succeeded =>
        \E ds \in DirectionChoices :
            IF args.append # NoPath
            THEN \E q \in DiskPaths :
                    disk = [hist.disk EXCEPT ![q] = FileWith(@.content \o OwedRows(ds))]
            ELSE IF args.output # NoPath
            THEN \E q \in DiskPaths :
                    disk = [hist.disk EXCEPT ![q] = FileWith(Flatten(<<HEADER>>) \o OwedRows(ds))]
            ELSE stdout = Flatten(<<HEADER>>) \o OwedRows(ds) /\ disk = hist.disk

\* A run with -a and -i over two different files ended with success.
C4_Witness ==
    /\ Succeeded
    /\ args.append # NoPath
    /\ args.infer
    /\ NFiles = 2
    /\ args.files[1] # args.files[2]

\* A file whose first "@" line has neither a second space-delimited field nor
\* five ":"-separated fields.
Unparseable(f) ==
    LET ls == FileLines(f.content)
        hs == {i \in 1..Len(ls) : ls[i][1] = "@"}
    IN /\ f.exists
       /\ hs # {}
       /\ Positions(ls[Min(hs)], " ") = {}
       /\ Cardinality(Positions(ls[Min(hs)], ":")) < 4

BadSuffix ==
    \E i \in 1..NFiles :
        LET n == args.files[i].name
        IN Len(n) < 3 \/ SubSeq(n, Len(n) - 1, Len(n)) # <<".", "fastq">>
MissingInput == \E i \in 1..NFiles : ~hist.disk[Absolute(args.files[i])].exists
MissingAppendTarget == args.append # NoPath /\ ~hist.disk[Absolute(args.append)].exists
OutputConflict ==
    args.output # NoPath /\ args.no_overwrite /\ hist.disk[Absolute(args.output)].exists
InferenceFails ==
    args.infer /\ \E i \in 1..NFiles : Unparseable(hist.disk[Absolute(args.files[i])])

OwedExitCode ==
    IF BadSuffix THEN 1
    ELSE IF MissingInput THEN 2
    ELSE IF MissingAppendTarget \/ OutputConflict \/ InferenceFails THEN 1
    ELSE 0

\* C7: main returns 0 on success, 1 for a bad suffix, a missing append target,
\* an existing output with --no-overwrite and an inference failure, 2 for a
\* missing input file; a failure prints a one-line message and is never an
\* uncaught exception.
C7_ExitCodes ==
    pc = "done" =>
        /\ outcome = Return(OwedExitCode)
        /\ OwedExitCode # 0 => (Positions(stdout, "\n") = {Len(stdout)} /\ stdout # <<>>)

\* C10: in a run with -i and -o or -a in which inference fails for some input
\* file, nothing is ever written to disk: no file is created or truncated and
\* the append target keeps its content.
C10_NoWriteWhenInferenceFails ==
    (InferenceFails /\ (args.append # NoPath \/ args.output # NoPath)) =>
        disk = hist.disk

\* A run with -i and -a ended on the second file's inference failure, after
\* the first file's row was added.
C10_Witness ==
    /\ pc = "done"
    /\ outcome.kind = "raise"
    /\ args.infer
    /\ args.append # NoPath
    /\ NFiles = 2
    /\ Unparseable(hist.disk[Absolute(args.files[2])])
    /\ Len(doc.unwritten) = 1

====
